---- MODULE Spec2Model ----
(***************************************************************************)
(* mojibake: an 11-bit-per-symbol emoji codec.                             *)
(*   encode / encode_stream   (mojibake/src/encode.rs)                     *)
(*   decode / decode_stream   (mojibake/src/decode.rs)                     *)
(*   GraphemeReader           (mojibake/src/decode.rs)                     *)
(*   the four lookup tables   (mojibake/build.rs)                          *)
(* A String is a sequence of code points, a byte string a sequence of      *)
(* integers 0..255.                                                        *)
(***************************************************************************)
EXTENDS Integers, Sequences, FiniteSets, TLC

VARIABLES
    pc,           \* which function is running, or "done"
    bytes,        \* encode: the input byte sequence
    e_pos,        \* encode: number of input bytes processed
    e_stage,      \* encode: stage (u16)
    e_remaining,  \* encode: remaining (u8)
    output,       \* encode: the output String
    lookup,       \* encode: the table lookup of the last step, or NoLookup
    string,       \* decode: the input String
    chars,        \* decode: the clusters the peekable iterator has not yielded
    d_stage,      \* decode: stage (u32)
    d_remaining,  \* decode: remaining (u8)
    residue,      \* decode: residue
    ret,          \* decode: the bytes pushed so far
    result,       \* what the function returned: "running" until it returns
    reader,       \* the streaming functions: the bytes of the source
    r_pos,        \* the number of bytes of the source read so far
    writer,       \* the streaming functions: the bytes written to the sink
    io_error,     \* "none", or the failure the source or the sink reported
    buffer,       \* GraphemeReader.buffer; the array buffer of encode_stream
    pending,      \* encode_stream: the bytes the for loop has yet to take
    read_sizes,   \* encode_stream: the sizes of the reads that returned bytes
    peeked,       \* decode_stream: the item Peekable holds, or NotPeeked
    cur,          \* decode_stream: the main symbol waiting for chars.peek()
    handled,      \* decode_stream: the clusters whose bits were taken, each
                  \* with the is_last it was taken with
    symbols,      \* GraphemeReader alone: the symbols joined to make the input
    yielded       \* GraphemeReader alone: the items next() has returned

codec_vars == <<pc, bytes, e_pos, e_stage, e_remaining, output, lookup,
                string, chars, d_stage, d_remaining, residue, ret, result>>
stream_vars == <<reader, r_pos, writer, io_error, buffer, pending, read_sizes,
                 peeked, cur, handled, symbols, yielded>>
vars == <<codec_vars, stream_vars>>

----------------------------------------------------------------------------
(* Bounds of the model *)

\* longest input byte sequence of the round-trip specification
MaxLen == 11
\* longest sequence of arbitrary symbols handed to decode
MaxSyms == 4

\* the byte values inputs are drawn from: 0x31 and its complement 0xCE
ByteVals == {49, 206}

BoundedSeq(S, n) == UNION {[1..k -> S] : k \in 0..n}

----------------------------------------------------------------------------
(* Fixed-width integer arithmetic *)

Pow2(n) == 2 ^ n

\* the low k bits of x; the values of the model are below 2^31, so for
\* k >= 31 that is x itself
LowBits(x, k) == IF k >= 31 THEN x ELSE x % Pow2(k)

\* x << n in a w-bit unsigned integer (n < w): the bits shifted out are lost
Shl(x, n, w) == LowBits(x, w - n) * Pow2(n)

\* x >> n
Shr(x, n) == x \div Pow2(n)

RECURSIVE BitOr(_, _)
\* a | b
BitOr(a, b) ==
    IF a = 0 THEN b
    ELSE IF b = 0 THEN a
    ELSE (IF a % 2 = 1 \/ b % 2 = 1 THEN 1 ELSE 0) + 2 * BitOr(a \div 2, b \div 2)

RECURSIVE BitAnd(_, _)
\* a & b
BitAnd(a, b) ==
    IF a = 0 \/ b = 0 THEN 0
    ELSE (IF a % 2 = 1 /\ b % 2 = 1 THEN 1 ELSE 0) + 2 * BitAnd(a \div 2, b \div 2)

----------------------------------------------------------------------------
(* The lookup tables (build.rs).  The data file emoji-sequences.txt is not  *)
(* part of the sources: emoji_list stands for its filtered, reversed list   *)
(* with one entry of each shape the file holds (modifier sequences, tag     *)
(* sequences, flags, keycaps, basic emoji with and without U+FE0F).         *)

\* Option<u16>::None
None == -1
\* Option<&str>::None (no table symbol is the empty String)
NoSymbol == <<>>

\* number of entries of the main table
MAIN_LEN == 2048
\* number of entries of the tail table
TAIL_LEN == 261

N_MODIFIER == 640
N_TAG == 3
N_FLAG == 258
N_KEYCAP == 12

VS16 == 65039          \* U+FE0F
KEYCAP == 8419         \* U+20E3
ZWJ == 8205            \* U+200D
SKIN_LO == 127995      \* U+1F3FB
SKIN_HI == 127999      \* U+1F3FF
RI_LO == 127462        \* U+1F1E6
RI_HI == 127487        \* U+1F1FF
TAG_LO == 917536       \* U+E0020
TAG_END == 917631      \* U+E007F
BLACK_FLAG == 127988   \* U+1F3F4
PERSON_LO == 128102    \* U+1F466
FACE_LO == 128512      \* U+1F600
MISC_LO == 9728        \* U+2600

\* the g-th entry of the filtered emoji list, g in 0..MAIN_LEN+TAIL_LEN-1
emoji_list(g) ==
    IF g < N_MODIFIER
      THEN <<PERSON_LO + (g \div 5), SKIN_LO + (g % 5)>>
    ELSE IF g < N_MODIFIER + N_TAG
      THEN <<BLACK_FLAG, TAG_LO + 65 + (g - N_MODIFIER), TAG_END>>
    ELSE IF g < N_MODIFIER + N_TAG + N_FLAG
      THEN LET k == g - N_MODIFIER - N_TAG
           IN  <<RI_LO + (k \div 26), RI_LO + (k % 26)>>
    ELSE IF g < N_MODIFIER + N_TAG + N_FLAG + N_KEYCAP
      THEN <<48 + (g - N_MODIFIER - N_TAG - N_FLAG), VS16, KEYCAP>>
    ELSE LET j == g - N_MODIFIER - N_TAG - N_FLAG - N_KEYCAP
         IN  IF j % 2 = 0 THEN <<FACE_LO + j>> ELSE <<MISC_LO + j, VS16>>

\* the position of the String c in the filtered emoji list, or None
emoji_position(c) ==
    LET n == Len(c)
        first == N_MODIFIER + N_TAG + N_FLAG + N_KEYCAP
        g == IF n = 2 /\ c[2] \in SKIN_LO..SKIN_HI /\ c[1] >= PERSON_LO
               THEN (c[1] - PERSON_LO) * 5 + (c[2] - SKIN_LO)
             ELSE IF n = 3 /\ c[1] = BLACK_FLAG /\ c[3] = TAG_END /\ c[2] >= TAG_LO + 65
               THEN N_MODIFIER + (c[2] - TAG_LO - 65)
             ELSE IF n = 2 /\ c[1] \in RI_LO..RI_HI /\ c[2] \in RI_LO..RI_HI
               THEN N_MODIFIER + N_TAG + (c[1] - RI_LO) * 26 + (c[2] - RI_LO)
             ELSE IF n = 3 /\ c[2] = VS16 /\ c[3] = KEYCAP /\ c[1] >= 48
               THEN N_MODIFIER + N_TAG + N_FLAG + (c[1] - 48)
             ELSE IF n = 1 /\ c[1] >= FACE_LO
               THEN first + (c[1] - FACE_LO)
             ELSE IF n = 2 /\ c[2] = VS16 /\ c[1] >= MISC_LO
               THEN first + (c[1] - MISC_LO)
             ELSE None
    IN  IF g \in 0..(MAIN_LEN + TAIL_LEN - 1) /\ emoji_list(g) = c THEN g ELSE None

\* EMOJI_MAP.get(&index): the symbol, or NoSymbol
EMOJI_MAP(index) ==
    IF index \in 0..(MAIN_LEN - 1) THEN emoji_list(index) ELSE NoSymbol

\* TAIL_MAP.get(&index): the symbol, or NoSymbol
TAIL_MAP(index) ==
    IF index \in 0..(TAIL_LEN - 1) THEN emoji_list(MAIN_LEN + index) ELSE NoSymbol

\* NUMBER_MAP.get(c): the index, or None
NUMBER_MAP(c) ==
    LET g == emoji_position(c) IN IF g # None /\ g < MAIN_LEN THEN g ELSE None

\* TAIL_NUMBER_MAP.get(c): the index, or None
TAIL_NUMBER_MAP(c) ==
    LET g == emoji_position(c) IN IF g # None /\ g >= MAIN_LEN THEN g - MAIN_LEN ELSE None

----------------------------------------------------------------------------
(* Grapheme clusters (unicode_segmentation, UAX #29) over the code points   *)
(* the tables and the foreign inputs use.                                   *)

IsRI(cp) == cp \in RI_LO..RI_HI
IsExtend(cp) == cp = VS16 \/ cp = KEYCAP \/ cp \in SKIN_LO..SKIN_HI \/ cp \in TAG_LO..TAG_END
IsExtPict(cp) == cp >= MISC_LO /\ ~IsRI(cp) /\ ~IsExtend(cp) /\ cp < TAG_LO

\* is there no boundary between the cluster cl (non-empty) and the code point cp
NoBreak(cl, cp) ==
    LET last == cl[Len(cl)]
        \* GB11: ExtPict Extend* ZWJ x ExtPict
        gb11 == /\ last = ZWJ
                /\ IsExtPict(cp)
                /\ \E i \in 1..(Len(cl) - 1) :
                       /\ IsExtPict(cl[i])
                       /\ \A k \in (i + 1)..(Len(cl) - 1) : IsExtend(cl[k])
        \* GB12, GB13: regional indicators pair up from the start of the run
        gb12 == /\ IsRI(last)
                /\ IsRI(cp)
                /\ Len(cl) = 1
    IN  \/ IsExtend(cp) \/ cp = ZWJ     \* GB9
        \/ gb11
        \/ gb12

RECURSIVE split_graphemes(_, _, _)
\* the clusters of the code points s, after the clusters acc and the open cluster cl
split_graphemes(s, acc, cl) ==
    IF s = <<>> THEN (IF cl = <<>> THEN acc ELSE Append(acc, cl))
    ELSE IF cl = <<>> THEN split_graphemes(Tail(s), acc, <<Head(s)>>)
    ELSE IF NoBreak(cl, Head(s)) THEN split_graphemes(Tail(s), acc, Append(cl, Head(s)))
    ELSE split_graphemes(Tail(s), Append(acc, cl), <<Head(s)>>)

\* s.graphemes(is_extended): the sequence of clusters of the String s.  The
\* legacy and the extended rules differ only on Prepend and SpacingMark
\* characters, which none of the modelled code points is.
graphemes(s, is_extended) == split_graphemes(s, <<>>, <<>>)

RECURSIVE concat(_)
\* the concatenation of a sequence of Strings
concat(ss) == IF ss = <<>> THEN <<>> ELSE Head(ss) \o concat(Tail(ss))

----------------------------------------------------------------------------
(* UTF-8: String::as_bytes and std::str::from_utf8 *)

\* the UTF-8 bytes of one code point
utf8_char(cp) ==
    IF cp < 128 THEN <<cp>>
    ELSE IF cp < 2048 THEN <<192 + (cp \div 64), 128 + (cp % 64)>>
    ELSE IF cp < 65536
      THEN <<224 + (cp \div 4096), 128 + ((cp \div 64) % 64), 128 + (cp % 64)>>
    ELSE <<240 + (cp \div 262144), 128 + ((cp \div 4096) % 64),
           128 + ((cp \div 64) % 64), 128 + (cp % 64)>>

RECURSIVE as_bytes(_)
\* str.as_bytes(): the UTF-8 bytes of the String s
as_bytes(s) == IF s = <<>> THEN <<>> ELSE utf8_char(Head(s)) \o as_bytes(Tail(s))

RECURSIVE utf8_decode(_, _)
\* the code points of the bytes bs after the code points acc, or ok = FALSE
\* when bs is not valid UTF-8
utf8_decode(bs, acc) ==
    IF bs = <<>> THEN [ok |-> TRUE, s |-> acc]
    ELSE LET b == Head(bs)
             n == IF b < 128 THEN 1
                  ELSE IF b \in 194..223 THEN 2
                  ELSE IF b \in 224..239 THEN 3
                  ELSE IF b \in 240..244 THEN 4
                  ELSE 0
             cp == IF n = 1 THEN b
                   ELSE IF n = 2 THEN (b - 192) * 64 + (bs[2] - 128)
                   ELSE IF n = 3
                     THEN (b - 224) * 4096 + (bs[2] - 128) * 64 + (bs[3] - 128)
                   ELSE (b - 240) * 262144 + (bs[2] - 128) * 4096
                            + (bs[3] - 128) * 64 + (bs[4] - 128)
         IN  IF n = 0 \/ Len(bs) < n THEN [ok |-> FALSE, s |-> <<>>]
             ELSE IF \E i \in 2..n : bs[i] \notin 128..191 THEN [ok |-> FALSE, s |-> <<>>]
             ELSE IF utf8_char(cp) # SubSeq(bs, 1, n) \/ cp \in 55296..57343 \/ cp > 1114111
               THEN [ok |-> FALSE, s |-> <<>>]
             ELSE utf8_decode(SubSeq(bs, n + 1, Len(bs)), Append(acc, cp))

\* std::str::from_utf8(bs)
from_utf8(bs) == utf8_decode(bs, <<>>)

----------------------------------------------------------------------------
(* encode (encode.rs) *)

NoLookup == [table |-> "none", index |-> 0]

\* bytes_to_emojis with the whole byte kept in stage (the mask forgotten)
bytes_to_emojis_no_mask(stage, remaining, byte) ==
    LET need == 11 - remaining
    IN  IF need <= 8
          THEN LET rem == 8 - need
                   index == BitOr(Shl(stage, need, 16), Shr(byte, rem))
               IN  [stage     |-> byte,
                    remaining |-> rem,
                    emoji     |-> EMOJI_MAP(index),
                    lookup    |-> [table |-> "main", index |-> index],
                    panic     |-> EMOJI_MAP(index) = NoSymbol]
          ELSE [stage     |-> BitOr(Shl(stage, 8, 16), byte),
                remaining |-> remaining + 8,
                emoji     |-> NoSymbol,
                lookup    |-> NoLookup,
                panic     |-> FALSE]

\* bytes_to_emojis with the test need <= 7: a byte that arrives with 3 pending
\* bits is accumulated instead of completing a symbol
bytes_to_emojis_need7(stage, remaining, byte) ==
    LET need == 11 - remaining
    IN  IF need <= 7
          THEN LET rem == 8 - need
                   index == BitOr(Shl(stage, need, 16), Shr(byte, rem))
               IN  [stage     |-> BitAnd(byte, Pow2(rem) - 1),
                    remaining |-> rem,
                    emoji     |-> EMOJI_MAP(index),
                    lookup    |-> [table |-> "main", index |-> index],
                    panic     |-> EMOJI_MAP(index) = NoSymbol]
          ELSE [stage     |-> BitOr(Shl(stage, 8, 16), byte),
                remaining |-> remaining + 8,
                emoji     |-> NoSymbol,
                lookup    |-> NoLookup,
                panic     |-> FALSE]

\* bytes_to_emojis(&mut stage, &mut remaining, byte): the new stage and
\* remaining, the symbol returned (NoSymbol for None), the lookup made, and
\* whether the expect() on the lookup panicked
bytes_to_emojis(stage, remaining, byte) ==
    LET need == 11 - remaining
    IN  IF need <= 8
          THEN LET rem == 8 - need
                   index == BitOr(Shl(stage, need, 16), Shr(byte, rem))
               IN  [stage     |-> BitAnd(byte, Pow2(rem) - 1),
                    remaining |-> rem,
                    emoji     |-> EMOJI_MAP(index),
                    lookup    |-> [table |-> "main", index |-> index],
                    panic     |-> EMOJI_MAP(index) = NoSymbol]
          ELSE [stage     |-> BitOr(Shl(stage, 8, 16), byte),
                remaining |-> remaining + 8,
                emoji     |-> NoSymbol,
                lookup    |-> NoLookup,
                panic     |-> FALSE]

\* handle_remaining_bits with the tail table used up to 4 pending bits
handle_remaining_bits_tail4(stage, remaining) ==
    IF remaining = 0
      THEN [emoji |-> NoSymbol, lookup |-> NoLookup, panic |-> FALSE]
    ELSE IF remaining <= 4
      THEN [emoji  |-> TAIL_MAP(stage),
            lookup |-> [table |-> "tail", index |-> stage],
            panic  |-> TAIL_MAP(stage) = NoSymbol]
    ELSE [emoji  |-> EMOJI_MAP(stage),
          lookup |-> [table |-> "main", index |-> stage],
          panic  |-> EMOJI_MAP(stage) = NoSymbol]

\* handle_remaining_bits without its test of remaining == 0
handle_remaining_bits_no_zero(stage, remaining) ==
    IF remaining <= 3
      THEN [emoji  |-> TAIL_MAP(stage),
            lookup |-> [table |-> "tail", index |-> stage],
            panic  |-> TAIL_MAP(stage) = NoSymbol]
    ELSE [emoji  |-> EMOJI_MAP(stage),
          lookup |-> [table |-> "main", index |-> stage],
          panic  |-> EMOJI_MAP(stage) = NoSymbol]

\* handle_remaining_bits(stage, remaining)
handle_remaining_bits(stage, remaining) ==
    IF remaining = 0
      THEN [emoji |-> NoSymbol, lookup |-> NoLookup, panic |-> FALSE]
    ELSE IF remaining <= 3
      THEN [emoji  |-> TAIL_MAP(stage),
            lookup |-> [table |-> "tail", index |-> stage],
            panic  |-> TAIL_MAP(stage) = NoSymbol]
    ELSE [emoji  |-> EMOJI_MAP(stage),
          lookup |-> [table |-> "main", index |-> stage],
          panic  |-> EMOJI_MAP(stage) = NoSymbol]

\* push_str(source, dst): dst with the symbol appended, if there is one
push_str(source, dst) == IF source = NoSymbol THEN dst ELSE dst \o source

RECURSIVE encode_loop(_, _, _, _)
\* the for loop of encode over the bytes bs, then the final push_str
encode_loop(bs, stage, remaining, out) ==
    IF bs = <<>>
      THEN LET h == handle_remaining_bits(stage, remaining)
           IN  [panic |-> h.panic, output |-> push_str(h.emoji, out)]
      ELSE LET r == bytes_to_emojis(stage, remaining, Head(bs))
           IN  IF r.panic THEN [panic |-> TRUE, output |-> out]
               ELSE encode_loop(Tail(bs), r.stage, r.remaining, push_str(r.emoji, out))

\* encode(bytes) as a function of its argument
encode(bs) == encode_loop(bs, 0, 0, <<>>)

\* one iteration of the for loop of encode
EncodeByte ==
    /\ pc = "encode"
    /\ e_pos < Len(bytes)
    /\ LET r == bytes_to_emojis(e_stage, e_remaining, bytes[e_pos + 1])
       IN  /\ e_stage' = r.stage
           /\ e_remaining' = r.remaining
           /\ lookup' = r.lookup
           /\ e_pos' = e_pos + 1
           /\ IF r.panic
                THEN /\ pc' = "done"
                     /\ result' = "encode panic"
                     /\ output' = output
                ELSE /\ pc' = pc
                     /\ result' = result
                     /\ output' = push_str(r.emoji, output)
    /\ UNCHANGED <<bytes, string, chars, d_stage, d_remaining, residue, ret>>
    /\ UNCHANGED stream_vars

\* the end of encode: the final symbol, and the return of output
EncodeFinish ==
    /\ pc = "encode"
    /\ e_pos = Len(bytes)
    /\ LET h == handle_remaining_bits(e_stage, e_remaining)
       IN  /\ lookup' = h.lookup
           /\ IF h.panic
                THEN /\ pc' = "done"
                     /\ result' = "encode panic"
                     /\ output' = output
                ELSE /\ pc' = "encoded"
                     /\ result' = result
                     /\ output' = push_str(h.emoji, output)
    /\ UNCHANGED <<bytes, e_pos, e_stage, e_remaining,
                   string, chars, d_stage, d_remaining, residue, ret>>
    /\ UNCHANGED stream_vars

----------------------------------------------------------------------------
(* encode_stream (encode.rs) *)

\* the size of buffer, the array encode_stream reads into
ENC_BUFFER == 2

\* buffer.iter() with take(n) forgotten: the whole array, stale bytes too
taken_all(buf, n) == buf

\* buffer.iter().take(n): the bytes the read has just stored
taken(buf, n) == SubSeq(buf, 1, n)

\* the read storing its bytes at the end of the array instead of its start
stored_at_end(buf, bs) == SubSeq(buf, Len(bs) + 1, Len(buf)) \o bs

\* the array buf after a read has stored the bytes bs at its start
stored(buf, bs) == bs \o SubSeq(buf, Len(bs) + 1, Len(buf))

\* write_str(source, dst): the bytes handed to dst.write_all, if any
write_str(source) == IF source = NoSymbol THEN <<>> ELSE as_bytes(source)

\* encode_stream after its loop: the final symbol is written, Ok(()) is
\* returned; the write may fail (a failed write_all is taken to write nothing)
EncodeStreamEnd(errs) ==
    LET h == handle_remaining_bits(e_stage, e_remaining)
    IN  /\ lookup' = h.lookup
        /\ pc' = "done"
        /\ IF h.panic
             THEN /\ result' = "encode panic"
                  /\ writer' = writer
                  /\ io_error' = errs
             ELSE \E fails \in {FALSE, write_str(h.emoji) # <<>>} :
                    IF fails
                      THEN /\ result' = "Err"
                           /\ writer' = writer
                           /\ io_error' = errs \cup {"write"}
                      ELSE /\ result' = "Ok"
                           /\ writer' = writer \o write_str(h.emoji)
                           /\ io_error' = errs

\* reader.read(&mut buffer) returns Ok(n), n > 0
EncodeStreamRead ==
    /\ pc = "es_read"
    /\ \E n \in 1..ENC_BUFFER :
          /\ r_pos + n <= Len(reader)
          /\ buffer' = stored(buffer, SubSeq(reader, r_pos + 1, r_pos + n))
          /\ pending' = taken(stored(buffer, SubSeq(reader, r_pos + 1, r_pos + n)), n)
          /\ r_pos' = r_pos + n
          /\ read_sizes' = read_sizes \cup {n}
    /\ pc' = "es_bytes"
    /\ UNCHANGED <<bytes, e_pos, e_stage, e_remaining, output, lookup,
                   string, chars, d_stage, d_remaining, residue, ret, result>>
    /\ UNCHANGED <<reader, writer, io_error, peeked, cur, handled,
                   symbols, yielded>>

\* reader.read(&mut buffer) returns Ok(0): break
EncodeStreamReadEnd ==
    /\ pc = "es_read"
    /\ r_pos = Len(reader)
    /\ EncodeStreamEnd(io_error)
    /\ UNCHANGED <<bytes, e_pos, e_stage, e_remaining, output,
                   string, chars, d_stage, d_remaining, residue, ret>>
    /\ UNCHANGED <<reader, r_pos, buffer, pending, read_sizes, peeked, cur, handled,
                   symbols, yielded>>

\* reader.read(&mut buffer) returns Err: the pattern Ok(n) does not match
\* and the while let loop ends
EncodeStreamReadErr ==
    /\ pc = "es_read"
    /\ EncodeStreamEnd(io_error \cup {"read"})
    /\ UNCHANGED <<bytes, e_pos, e_stage, e_remaining, output,
                   string, chars, d_stage, d_remaining, residue, ret>>
    /\ UNCHANGED <<reader, r_pos, buffer, pending, read_sizes, peeked, cur, handled,
                   symbols, yielded>>

\* one iteration of the for loop of encode_stream
EncodeStreamByte ==
    /\ pc = "es_bytes"
    /\ LET r == bytes_to_emojis(e_stage, e_remaining, Head(pending))
       IN  /\ e_stage' = r.stage
           /\ e_remaining' = r.remaining
           /\ lookup' = r.lookup
           /\ pending' = Tail(pending)
           /\ IF r.panic
                THEN /\ pc' = "done"
                     /\ result' = "encode panic"
                     /\ writer' = writer
                     /\ io_error' = io_error
                ELSE \E fails \in {FALSE, write_str(r.emoji) # <<>>} :
                       IF fails
                         THEN /\ pc' = "done"
                              /\ result' = "Err"
                              /\ writer' = writer
                              /\ io_error' = io_error \cup {"write"}
                         ELSE /\ pc' = IF Tail(pending) = <<>> THEN "es_read" ELSE pc
                              /\ result' = result
                              /\ writer' = writer \o write_str(r.emoji)
                              /\ io_error' = io_error
    /\ UNCHANGED <<bytes, e_pos, output, string, chars, d_stage, d_remaining, residue, ret>>
    /\ UNCHANGED <<reader, r_pos, buffer, read_sizes, peeked, cur, handled,
                   symbols, yielded>>

----------------------------------------------------------------------------
(* decode (decode.rs) *)

RECURSIVE emit_bytes_gt8(_, _, _)
\* emit_bytes with the loop test remaining > 8: a byte of exactly 8 pending
\* bits is left in stage
emit_bytes_gt8(stage, remaining, out) ==
    IF remaining > 8
      THEN LET rem == remaining - 8
               byte == Shr(stage, rem)
           IN  IF byte > 255
                 THEN [panic |-> TRUE, stage |-> stage, remaining |-> rem, out |-> out]
                 ELSE emit_bytes_gt8(BitAnd(stage, Pow2(rem) - 1), rem, Append(out, byte))
      ELSE [panic |-> FALSE, stage |-> stage, remaining |-> remaining, out |-> out]

RECURSIVE emit_bytes(_, _, _)
\* while remaining >= 8 { ... }: the bytes pushed after out, the stage and
\* remaining left, and whether u8::try_from(..).expect(..) panicked
emit_bytes(stage, remaining, out) ==
    IF remaining >= 8
      THEN LET rem == remaining - 8
               byte == Shr(stage, rem)
           IN  IF byte > 255
                 THEN [panic |-> TRUE, stage |-> stage, remaining |-> rem, out |-> out]
                 ELSE emit_bytes(BitAnd(stage, Pow2(rem) - 1), rem, Append(out, byte))
      ELSE [panic |-> FALSE, stage |-> stage, remaining |-> remaining, out |-> out]

\* new_bits_of with every main symbol taken as 11 bits wide
new_bits_of_full_width(remaining, res, c, is_last) ==
    IF NUMBER_MAP(c) # None
      THEN [ok |-> TRUE, n |-> 11, bits |-> NUMBER_MAP(c)]
    ELSE IF TAIL_NUMBER_MAP(c) # None
      THEN LET need == 8 - remaining
           IN  IF TAIL_NUMBER_MAP(c) < Shl(1, need, 16)
                 THEN [ok |-> TRUE, n |-> need, bits |-> TAIL_NUMBER_MAP(c)]
                 ELSE [ok |-> FALSE, n |-> 0, bits |-> 0]
    ELSE [ok |-> FALSE, n |-> 0, bits |-> 0]

\* new_bits_of with a cluster of neither table skipped instead of rejected
new_bits_of_skip_foreign(remaining, res, c, is_last) ==
    IF NUMBER_MAP(c) # None
      THEN [ok |-> TRUE, n |-> IF is_last THEN 11 - res ELSE 11, bits |-> NUMBER_MAP(c)]
    ELSE IF TAIL_NUMBER_MAP(c) # None
      THEN LET need == 8 - remaining
           IN  IF TAIL_NUMBER_MAP(c) < Shl(1, need, 16)
                 THEN [ok |-> TRUE, n |-> need, bits |-> TAIL_NUMBER_MAP(c)]
                 ELSE [ok |-> FALSE, n |-> 0, bits |-> 0]
    ELSE [ok |-> TRUE, n |-> 0, bits |-> 0]

\* new_bits_of with the tail test off by one (<= for <)
new_bits_of_tail_le(remaining, res, c, is_last) ==
    IF NUMBER_MAP(c) # None
      THEN [ok |-> TRUE, n |-> IF is_last THEN 11 - res ELSE 11, bits |-> NUMBER_MAP(c)]
    ELSE IF TAIL_NUMBER_MAP(c) # None
      THEN LET need == 8 - remaining
           IN  IF TAIL_NUMBER_MAP(c) <= Shl(1, need, 16)
                 THEN [ok |-> TRUE, n |-> need, bits |-> TAIL_NUMBER_MAP(c)]
                 ELSE [ok |-> FALSE, n |-> 0, bits |-> 0]
    ELSE [ok |-> FALSE, n |-> 0, bits |-> 0]

\* the match on the two lookups: the number of new bits and the new bits of
\* the cluster c, or ok = FALSE for the early return
new_bits_of(remaining, res, c, is_last) ==
    IF NUMBER_MAP(c) # None
      THEN [ok |-> TRUE, n |-> IF is_last THEN 11 - res ELSE 11, bits |-> NUMBER_MAP(c)]
    ELSE IF TAIL_NUMBER_MAP(c) # None
      THEN LET need == 8 - remaining
           IN  IF TAIL_NUMBER_MAP(c) < Shl(1, need, 16)
                 THEN [ok |-> TRUE, n |-> need, bits |-> TAIL_NUMBER_MAP(c)]
                 ELSE [ok |-> FALSE, n |-> 0, bits |-> 0]
    ELSE [ok |-> FALSE, n |-> 0, bits |-> 0]

\* decode_symbol with the width of the last symbol taken from the residue of
\* the symbols before it (residue updated after the match, not before)
decode_symbol_stale_residue(stage, remaining, res0, c, is_last) ==
    LET res == (res0 + 11) % 8
        nb == new_bits_of(remaining, res0, c, is_last)
        e == emit_bytes(BitOr(Shl(stage, nb.n, 32), nb.bits), remaining + nb.n, <<>>)
    IN  IF nb.ok
          THEN [ok |-> TRUE, panic |-> e.panic, stage |-> e.stage,
                remaining |-> e.remaining, residue |-> res, out |-> e.out]
          ELSE [ok |-> FALSE, panic |-> FALSE, stage |-> stage,
                remaining |-> remaining, residue |-> res, out |-> <<>>]

\* one iteration of the while loop of decode on the cluster c; is_last is
\* chars.peek().is_none()
decode_symbol(stage, remaining, res0, c, is_last) ==
    LET res == (res0 + 11) % 8
        nb == new_bits_of(remaining, res, c, is_last)
        e == emit_bytes(BitOr(Shl(stage, nb.n, 32), nb.bits), remaining + nb.n, <<>>)
    IN  IF nb.ok
          THEN [ok |-> TRUE, panic |-> e.panic, stage |-> e.stage,
                remaining |-> e.remaining, residue |-> res, out |-> e.out]
          ELSE [ok |-> FALSE, panic |-> FALSE, stage |-> stage,
                remaining |-> remaining, residue |-> res, out |-> <<>>]

\* if remaining > 0 { ... } after the loop: the byte pushed, if any
final_byte(stage, remaining) ==
    IF remaining > 0
      THEN LET byte == Shr(stage, 8 - remaining)
           IN  [panic |-> byte > 255, out |-> IF byte > 255 THEN <<>> ELSE <<byte>>]
      ELSE [panic |-> FALSE, out |-> <<>>]

RECURSIVE decode_loop(_, _, _, _, _)
\* the while loop of decode over the clusters cs, then the final byte
decode_loop(cs, stage, remaining, res, out) ==
    IF cs = <<>>
      THEN LET f == final_byte(stage, remaining)
           IN  IF f.panic THEN [result |-> "panic", ret |-> out]
               ELSE [result |-> "Some", ret |-> out \o f.out]
      ELSE LET r == decode_symbol(stage, remaining, res, Head(cs), Len(cs) = 1)
           IN  IF ~r.ok THEN [result |-> "None", ret |-> <<>>]
               ELSE IF r.panic THEN [result |-> "panic", ret |-> out \o r.out]
               ELSE decode_loop(Tail(cs), r.stage, r.remaining, r.residue, out \o r.out)

\* decode(string) as a function of its argument
decode(s) == decode_loop(graphemes(s, FALSE), 0, 0, 0, <<>>)

\* the call decode(encoded) of the round trip: the locals of decode
DecodeStart ==
    /\ pc = "encoded"
    /\ pc' = "decode"
    /\ string' = output
    /\ chars' = graphemes(output, FALSE)
    /\ d_stage' = 0
    /\ d_remaining' = 0
    /\ residue' = 0
    /\ ret' = <<>>
    /\ result' = "running"
    /\ UNCHANGED <<bytes, e_pos, e_stage, e_remaining, output, lookup>>
    /\ UNCHANGED stream_vars

\* one iteration of the while loop of decode
DecodeSymbol ==
    /\ pc = "decode"
    /\ chars # <<>>
    /\ LET r == decode_symbol(d_stage, d_remaining, residue, Head(chars), Len(chars) = 1)
       IN  /\ chars' = Tail(chars)
           /\ residue' = r.residue
           /\ d_stage' = r.stage
           /\ d_remaining' = r.remaining
           /\ ret' = ret \o r.out
           /\ IF ~r.ok THEN pc' = "done" /\ result' = "None"
              ELSE IF r.panic THEN pc' = "done" /\ result' = "panic"
              ELSE pc' = pc /\ result' = result
    /\ UNCHANGED <<bytes, e_pos, e_stage, e_remaining, output, lookup, string>>
    /\ UNCHANGED stream_vars

\* the end of decode: the final byte and the return of Some(ret)
DecodeFinish ==
    /\ pc = "decode"
    /\ chars = <<>>
    /\ LET f == final_byte(d_stage, d_remaining)
       IN  /\ ret' = ret \o f.out
           /\ result' = IF f.panic THEN "panic" ELSE "Some"
    /\ pc' = "done"
    /\ UNCHANGED <<bytes, e_pos, e_stage, e_remaining, output, lookup,
                   string, chars, d_stage, d_remaining, residue>>
    /\ UNCHANGED stream_vars

----------------------------------------------------------------------------
(* GraphemeReader (decode.rs) *)

\* the size of chunk, the array read_next_grapheme reads into
CHUNK == 4

\* the items of the iterator, Option<io::Result<String>>, and the empty
\* state of Peekable
ItemNone == [kind |-> "None", s |-> <<>>, err |-> "none"]
ItemOk(s) == [kind |-> "Ok", s |-> s, err |-> "none"]
ItemErr(e) == [kind |-> "Err", s |-> <<>>, err |-> e]
NotPeeked == [kind |-> "empty", s |-> <<>>, err |-> "none"]

\* get_grapheme without the look-ahead: the first cluster, even when it is
\* the only one
get_grapheme_no_peek(buf) ==
    LET u == from_utf8(buf)
        iter == graphemes(u.s, TRUE)
    IN  IF ~u.ok THEN NoSymbol
        ELSE IF Len(iter) < 1 THEN NoSymbol
        ELSE iter[1]

\* get_grapheme over the longest prefix of the buffer that is valid UTF-8,
\* instead of giving up on a buffer that ends inside a code point
get_grapheme_valid_prefix(buf) ==
    LET k == CHOOSE n \in 0..Len(buf) :
                 /\ from_utf8(SubSeq(buf, 1, n)).ok
                 /\ \A m \in (n + 1)..Len(buf) : ~from_utf8(SubSeq(buf, 1, m)).ok
        iter == graphemes(from_utf8(SubSeq(buf, 1, k)).s, TRUE)
    IN  IF Len(iter) < 2 THEN NoSymbol ELSE iter[1]

\* get_grapheme(&self): the first cluster of the buffer, when the buffer is
\* valid UTF-8 and holds a second cluster; NoSymbol for None
get_grapheme(buf) ==
    LET u == from_utf8(buf)
        iter == graphemes(u.s, TRUE)
    IN  IF ~u.ok THEN NoSymbol
        ELSE IF Len(iter) < 2 THEN NoSymbol
        ELSE iter[1]

\* split_off one byte early: the last byte of the cluster stays in the buffer
split_off_early(buf, len) == SubSeq(buf, len, Len(buf))

\* self.buffer.split_off(len)
split_off(buf, len) == SubSeq(buf, len + 1, Len(buf))

\* end_of_input with the rest of the buffer dropped instead of returned
end_of_input_dropped(buf) == ItemNone

\* read_next_grapheme once the loop has ended on a read of 0 bytes
end_of_input(buf) ==
    IF buf = <<>> THEN ItemNone
    ELSE IF from_utf8(buf).ok THEN ItemOk(from_utf8(buf).s)
    ELSE ItemErr("InvalidData")

----------------------------------------------------------------------------
(* decode_stream (decode.rs) *)

\* stream_write_bytes with the calls of writer.write_all left out
stream_write_bytes_unwritten(stage, remaining, out) ==
    IF remaining >= 8
      THEN [panic |-> FALSE, stage |-> BitAnd(stage, Pow2(remaining % 8) - 1),
            remaining |-> remaining % 8, out |-> out]
      ELSE [panic |-> FALSE, stage |-> stage, remaining |-> remaining, out |-> out]

RECURSIVE stream_write_bytes(_, _, _)
\* while remaining >= 8 { ... } of decode_stream: the bytes handed to
\* writer.write_all after out, one per call
stream_write_bytes(stage, remaining, out) ==
    IF remaining >= 8
      THEN LET rem == remaining - 8
               byte == Shr(stage, rem)
           IN  IF byte > 255
                 THEN [panic |-> TRUE, stage |-> stage, remaining |-> rem, out |-> out]
                 ELSE stream_write_bytes(BitAnd(stage, Pow2(rem) - 1), rem, Append(out, byte))
      ELSE [panic |-> FALSE, stage |-> stage, remaining |-> remaining, out |-> out]

\* stream_new_bits without the test of the tail index against 2^need
stream_new_bits_tail_any(remaining, res, c, is_last) ==
    IF NUMBER_MAP(c) # None
      THEN [ok |-> TRUE, n |-> IF is_last THEN 11 - res ELSE 11, bits |-> NUMBER_MAP(c)]
    ELSE IF TAIL_NUMBER_MAP(c) # None
      THEN [ok |-> TRUE, n |-> 8 - remaining, bits |-> TAIL_NUMBER_MAP(c)]
    ELSE [ok |-> FALSE, n |-> 0, bits |-> 0]

\* the match of decode_stream on the two lookups; ok = FALSE for the
\* return of Err(InvalidData)
stream_new_bits(remaining, res, c, is_last) ==
    IF NUMBER_MAP(c) # None
      THEN [ok |-> TRUE, n |-> IF is_last THEN 11 - res ELSE 11, bits |-> NUMBER_MAP(c)]
    ELSE IF TAIL_NUMBER_MAP(c) # None
      THEN LET need == 8 - remaining
           IN  IF TAIL_NUMBER_MAP(c) < Shl(1, need, 16)
                 THEN [ok |-> TRUE, n |-> need, bits |-> TAIL_NUMBER_MAP(c)]
                 ELSE [ok |-> FALSE, n |-> 0, bits |-> 0]
    ELSE [ok |-> FALSE, n |-> 0, bits |-> 0]

\* if remaining > 0 { ... } of decode_stream
stream_final_byte(stage, remaining) ==
    IF remaining > 0
      THEN LET byte == Shr(stage, 8 - remaining)
           IN  [panic |-> byte > 255, out |-> IF byte > 255 THEN <<>> ELSE <<byte>>]
      ELSE [panic |-> FALSE, out |-> <<>>]

\* decode_stream returns r, having written the bytes out
Return(r, out, errs) ==
    /\ pc' = "done"
    /\ result' = r
    /\ writer' = writer \o out
    /\ io_error' = errs
    /\ UNCHANGED <<d_stage, d_remaining, handled>>

\* the loop body of decode_stream from "remaining += n_new_bits" on, for the
\* cluster c: its bits are taken and the completed bytes written; a write may
\* fail.  res is the residue, pk what Peekable holds afterwards.
TakeBits(c, is_last, res, pk, errs) ==
    LET nb == stream_new_bits(d_remaining, res, c, is_last)
        w == stream_write_bytes(BitOr(Shl(d_stage, nb.n, 32), nb.bits),
                                d_remaining + nb.n, <<>>)
    IN  /\ cur' = NoSymbol
        /\ peeked' = pk
        /\ residue' = res
        /\ IF ~nb.ok
             THEN Return("Err", <<>>, errs)
             ELSE \E fail_at \in 0..Len(w.out) :
                    /\ handled' = Append(handled, [c |-> c, is_last |-> is_last])
                    /\ d_stage' = w.stage
                    /\ d_remaining' = w.remaining
                    /\ IF fail_at > 0
                         THEN /\ pc' = "done"
                              /\ result' = "Err"
                              /\ writer' = writer \o SubSeq(w.out, 1, fail_at - 1)
                              /\ io_error' = errs \cup {"write"}
                         ELSE /\ pc' = IF w.panic THEN "done" ELSE "ds_next"
                              /\ result' = IF w.panic THEN "panic" ELSE result
                              /\ writer' = writer \o w.out
                              /\ io_error' = errs

\* the end of decode_stream, after the loop: the final byte, and Ok(())
Finish(errs) ==
    LET f == stream_final_byte(d_stage, d_remaining)
    IN  /\ UNCHANGED <<cur, residue>>
        /\ peeked' = NotPeeked
        /\ IF f.panic THEN Return("panic", <<>>, errs)
           ELSE \E fails \in {FALSE, f.out # <<>>} :
                  IF fails THEN Return("Err", <<>>, errs \cup {"write"})
                  ELSE Return("Ok", f.out, errs)

\* HandleNext with the loop going on after chars.next() returned None: the
\* end of the input is not taken and the function does not return
HandleNext_poll_again(item, errs) ==
    IF item.kind = "None"
      THEN /\ pc' = "ds_next"
           /\ io_error' = errs
           /\ UNCHANGED <<peeked, cur, residue, result, writer, d_stage,
                          d_remaining, handled>>
    ELSE IF item.kind = "Err"
      THEN /\ Return("Err", <<>>, errs)
           /\ peeked' = NotPeeked
           /\ UNCHANGED <<cur, residue>>
    ELSE IF NUMBER_MAP(item.s) # None
      THEN /\ pc' = "ds_peek"
           /\ cur' = item.s
           /\ residue' = (residue + 11) % 8
           /\ peeked' = NotPeeked
           /\ io_error' = errs
           /\ UNCHANGED <<result, writer, d_stage, d_remaining, handled>>
    ELSE TakeBits(item.s, FALSE, (residue + 11) % 8, NotPeeked, errs)

\* the loop of decode_stream from the item chars.next() returned to the
\* next call of the tokenizer
HandleNext(item, errs) ==
    IF item.kind = "None" THEN Finish(errs)
    ELSE IF item.kind = "Err"
      THEN /\ Return("Err", <<>>, errs)
           /\ peeked' = NotPeeked
           /\ UNCHANGED <<cur, residue>>
    ELSE IF NUMBER_MAP(item.s) # None
      THEN /\ pc' = "ds_peek"
           /\ cur' = item.s
           /\ residue' = (residue + 11) % 8
           /\ peeked' = NotPeeked
           /\ io_error' = errs
           /\ UNCHANGED <<result, writer, d_stage, d_remaining, handled>>
    ELSE TakeBits(item.s, FALSE, (residue + 11) % 8, NotPeeked, errs)

\* the tokenizer hands an item to the call that is waiting for it:
\* chars.peek() in the main-symbol arm, or chars.next()
Deliver(item, errs) ==
    IF pc = "ds_peek"
      THEN TakeBits(cur, item.kind = "None", residue, item, errs)
      ELSE HandleNext(item, errs)

\* read_next_grapheme is running
InTokenizer ==
    \/ pc = "ds_peek"
    \/ pc = "ds_next" /\ peeked = NotPeeked

\* read_next_grapheme: get_grapheme finds a cluster and it is returned
GraphemeYield ==
    /\ InTokenizer
    /\ get_grapheme(buffer) # NoSymbol
    /\ buffer' = split_off(buffer, Len(as_bytes(get_grapheme(buffer))))
    /\ Deliver(ItemOk(get_grapheme(buffer)), io_error)
    /\ UNCHANGED <<bytes, e_pos, e_stage, e_remaining, output, lookup,
                   string, chars, ret, reader, r_pos, pending, read_sizes,
                   symbols, yielded>>

\* read_next_grapheme: the read returns n > 0 bytes, the buffer is extended
GraphemeRead ==
    /\ InTokenizer
    /\ get_grapheme(buffer) = NoSymbol
    /\ \E n \in 1..CHUNK :
          /\ r_pos + n <= Len(reader)
          /\ buffer' = buffer \o SubSeq(reader, r_pos + 1, r_pos + n)
          /\ r_pos' = r_pos + n
    /\ UNCHANGED codec_vars
    /\ UNCHANGED <<reader, writer, io_error, pending, read_sizes, peeked, cur, handled,
                   symbols, yielded>>

\* read_next_grapheme: the read returns 0, the rest of the buffer is returned
GraphemeReadEnd ==
    /\ InTokenizer
    /\ get_grapheme(buffer) = NoSymbol
    /\ r_pos = Len(reader)
    /\ buffer' = <<>>
    /\ Deliver(end_of_input(buffer), io_error)
    /\ UNCHANGED <<bytes, e_pos, e_stage, e_remaining, output, lookup,
                   string, chars, ret, reader, r_pos, pending, read_sizes,
                   symbols, yielded>>

\* read_next_grapheme: the read fails, the error is returned
GraphemeReadErr ==
    /\ InTokenizer
    /\ get_grapheme(buffer) = NoSymbol
    /\ Deliver(ItemErr("Io"), io_error \cup {"read"})
    /\ UNCHANGED <<bytes, e_pos, e_stage, e_remaining, output, lookup,
                   string, chars, ret, reader, r_pos, buffer, pending, read_sizes,
                   symbols, yielded>>

\* chars.next() when Peekable holds the item chars.peek() fetched
DecodeStreamNext ==
    /\ pc = "ds_next"
    /\ peeked # NotPeeked
    /\ HandleNext(peeked, io_error)
    /\ UNCHANGED <<bytes, e_pos, e_stage, e_remaining, output, lookup,
                   string, chars, ret, reader, r_pos, buffer, pending, read_sizes,
                   symbols, yielded>>

----------------------------------------------------------------------------
(* GraphemeReader iterated on its own, as test_read_next_grapheme does: each *)
(* call of next() runs read_next_grapheme, the items are collected.          *)

\* read_next_grapheme: get_grapheme finds a cluster, next() returns it
NextGraphemeYield ==
    /\ pc = "gr_next"
    /\ get_grapheme(buffer) # NoSymbol
    /\ buffer' = split_off(buffer, Len(as_bytes(get_grapheme(buffer))))
    /\ yielded' = Append(yielded, ItemOk(get_grapheme(buffer)))
    /\ UNCHANGED codec_vars
    /\ UNCHANGED <<reader, r_pos, writer, io_error, pending, read_sizes,
                   peeked, cur, handled, symbols>>

\* read_next_grapheme: the read returns n > 0 bytes, the buffer is extended
NextGraphemeRead ==
    /\ pc = "gr_next"
    /\ get_grapheme(buffer) = NoSymbol
    /\ \E n \in 1..CHUNK :
          /\ r_pos + n <= Len(reader)
          /\ buffer' = buffer \o SubSeq(reader, r_pos + 1, r_pos + n)
          /\ r_pos' = r_pos + n
    /\ UNCHANGED codec_vars
    /\ UNCHANGED <<reader, writer, io_error, pending, read_sizes, peeked, cur,
                   handled, symbols, yielded>>

\* read_next_grapheme: the read returns 0; the rest of the buffer, if any, is
\* returned and the buffer cleared; the iteration stops when next() is None
NextGraphemeReadEnd ==
    /\ pc = "gr_next"
    /\ get_grapheme(buffer) = NoSymbol
    /\ r_pos = Len(reader)
    /\ buffer' = <<>>
    /\ yielded' = Append(yielded, end_of_input(buffer))
    /\ pc' = IF end_of_input(buffer) = ItemNone THEN "done" ELSE pc
    /\ UNCHANGED <<bytes, e_pos, e_stage, e_remaining, output, lookup,
                   string, chars, d_stage, d_remaining, residue, ret, result>>
    /\ UNCHANGED <<reader, r_pos, writer, io_error, pending, read_sizes,
                   peeked, cur, handled, symbols>>

\* read_next_grapheme: the read fails and next() returns the error; the
\* source fails at most once
NextGraphemeReadErr ==
    /\ pc = "gr_next"
    /\ get_grapheme(buffer) = NoSymbol
    /\ io_error = {}
    /\ io_error' = {"read"}
    /\ yielded' = Append(yielded, ItemErr("Io"))
    /\ UNCHANGED codec_vars
    /\ UNCHANGED <<reader, r_pos, writer, buffer, pending, read_sizes,
                   peeked, cur, handled, symbols>>

----------------------------------------------------------------------------
(* Specifications *)

\* the streaming functions are not running
NoStream ==
    /\ reader = <<>>
    /\ r_pos = 0
    /\ writer = <<>>
    /\ io_error = {}
    /\ buffer = <<>>
    /\ pending = <<>>
    /\ read_sizes = {}
    /\ peeked = NotPeeked
    /\ cur = NoSymbol
    /\ handled = <<>>
    /\ symbols = <<>>
    /\ yielded = <<>>

\* the round trip of test_encode_decode: encode(&bytes), then decode(encoded)
Init ==
    /\ bytes \in BoundedSeq(ByteVals, MaxLen)
    /\ pc = "encode"
    /\ e_pos = 0
    /\ e_stage = 0
    /\ e_remaining = 0
    /\ output = <<>>
    /\ lookup = NoLookup
    /\ string = <<>>
    /\ chars = <<>>
    /\ d_stage = 0
    /\ d_remaining = 0
    /\ residue = 0
    /\ ret = <<>>
    /\ result = "running"
    /\ NoStream

Next ==
    \/ EncodeByte
    \/ EncodeFinish
    \/ DecodeStart
    \/ DecodeSymbol
    \/ DecodeFinish

Spec == Init /\ [][Next]_vars

\* the symbols arbitrary inputs of decode are made of: main-table symbols,
\* tail-table symbols, and clusters of neither table ("I", and a skin tone
\* modifier, which joins the cluster before it)
MainInputs == {0, 32, 2047}
TailInputs == {3, 4, 31, 32, 255, 256}
ForeignInputs == {<<73>>, <<SKIN_LO>>}
SymbolInputs ==
    {EMOJI_MAP(i) : i \in MainInputs} \cup {TAIL_MAP(i) : i \in TailInputs} \cup ForeignInputs

\* decode(string) on every String made of at most MaxSyms of these symbols
InitDecode ==
    /\ \E ss \in BoundedSeq(SymbolInputs, MaxSyms) :
          /\ string = concat(ss)
          /\ chars = graphemes(concat(ss), FALSE)
    /\ pc = "decode"
    /\ bytes = <<>>
    /\ e_pos = 0
    /\ e_stage = 0
    /\ e_remaining = 0
    /\ output = <<>>
    /\ lookup = NoLookup
    /\ d_stage = 0
    /\ d_remaining = 0
    /\ residue = 0
    /\ ret = <<>>
    /\ result = "running"
    /\ NoStream

NextDecode ==
    \/ DecodeSymbol
    \/ DecodeFinish

SpecDecode == InitDecode /\ [][NextDecode]_vars

\* decode(string) on every encoding of up to MaxLen bytes, and on every
\* String made of at most MaxSyms main-table symbols
InitDecodeMain ==
    /\ \/ \E b \in BoundedSeq(ByteVals, MaxLen) :
             /\ bytes = b
             /\ string = encode(b).output
             /\ chars = graphemes(encode(b).output, FALSE)
       \/ \E ss \in BoundedSeq({EMOJI_MAP(i) : i \in MainInputs}, MaxSyms) :
             /\ bytes = <<>>
             /\ string = concat(ss)
             /\ chars = graphemes(concat(ss), FALSE)
    /\ pc = "decode"
    /\ e_pos = 0
    /\ e_stage = 0
    /\ e_remaining = 0
    /\ output = <<>>
    /\ lookup = NoLookup
    /\ d_stage = 0
    /\ d_remaining = 0
    /\ residue = 0
    /\ ret = <<>>
    /\ result = "running"
    /\ NoStream

SpecDecodeMain == InitDecodeMain /\ [][NextDecode]_vars

\* longest byte sequence of which every value is streamed
MaxStreamLen == 6
\* longest sequence of arbitrary symbols streamed
MaxStreamSyms == 3

\* one byte sequence of each length up to n: alternating byte values
Alternating(n) == {[i \in 1..k |-> IF i % 2 = 1 THEN 49 ELSE 206] : k \in 0..n}

\* the inputs of the streaming functions: every sequence of ByteVals up to
\* MaxStreamLen bytes, and one of each length up to MaxLen
StreamBytes == BoundedSeq(ByteVals, MaxStreamLen) \cup Alternating(MaxLen)

\* the symbols arbitrary streams are made of
StreamSymbolInputs ==
    {EMOJI_MAP(0), EMOJI_MAP(2047), EMOJI_MAP(700), TAIL_MAP(3), TAIL_MAP(256), <<73>>}

\* decode_stream(reader, writer) on the UTF-8 bytes of an encoding, of a
\* String of arbitrary symbols, or of such a String without its last byte
InitStream ==
    /\ \/ \E b \in StreamBytes :
             /\ bytes = b
             /\ string = encode(b).output
             /\ reader = as_bytes(encode(b).output)
       \/ \E ss \in BoundedSeq(StreamSymbolInputs, MaxStreamSyms), cut \in 0..1 :
             /\ bytes = <<>>
             /\ string = concat(ss)
             /\ ss # <<>>
             /\ reader = SubSeq(as_bytes(concat(ss)), 1, Len(as_bytes(concat(ss))) - cut)
    /\ pc = "ds_next"
    /\ e_pos = 0
    /\ e_stage = 0
    /\ e_remaining = 0
    /\ output = <<>>
    /\ lookup = NoLookup
    /\ chars = <<>>
    /\ d_stage = 0
    /\ d_remaining = 0
    /\ residue = 0
    /\ ret = <<>>
    /\ result = "running"
    /\ r_pos = 0
    /\ writer = <<>>
    /\ io_error = {}
    /\ buffer = <<>>
    /\ pending = <<>>
    /\ read_sizes = {}
    /\ peeked = NotPeeked
    /\ cur = NoSymbol
    /\ handled = <<>>
    /\ symbols = <<>>
    /\ yielded = <<>>

NextStream ==
    \/ GraphemeYield
    \/ GraphemeRead
    \/ GraphemeReadEnd
    \/ GraphemeReadErr
    \/ DecodeStreamNext

SpecStream == InitStream /\ [][NextStream]_vars

\* a step of read_next_grapheme
read_next_grapheme ==
    \/ GraphemeYield
    \/ GraphemeRead
    \/ GraphemeReadEnd
    \/ GraphemeReadErr

\* decode_stream keeps running until it returns: it is sequential code, and
\* every read of the finite source returns (bytes, 0, or an error).  The
\* second conjunct is WF_vars(read_next_grapheme) with its ENABLED written
\* out: a step of read_next_grapheme is possible exactly when InTokenizer.
SpecStreamFair ==
    /\ InitStream
    /\ [][NextStream]_vars
    /\ WF_vars(DecodeStreamNext)
    /\ ([]<>(~InTokenizer) \/ []<><<read_next_grapheme>>_vars)

\* encode_stream(reader, writer) on the byte sequences StreamBytes
InitEncodeStream ==
    /\ reader \in StreamBytes
    /\ pc = "es_read"
    /\ bytes = <<>>
    /\ e_pos = 0
    /\ e_stage = 0
    /\ e_remaining = 0
    /\ output = <<>>
    /\ lookup = NoLookup
    /\ string = <<>>
    /\ chars = <<>>
    /\ d_stage = 0
    /\ d_remaining = 0
    /\ residue = 0
    /\ ret = <<>>
    /\ result = "running"
    /\ r_pos = 0
    /\ writer = <<>>
    /\ io_error = {}
    /\ buffer = [i \in 1..ENC_BUFFER |-> 0]
    /\ pending = <<>>
    /\ read_sizes = {}
    /\ peeked = NotPeeked
    /\ cur = NoSymbol
    /\ handled = <<>>
    /\ symbols = <<>>
    /\ yielded = <<>>

NextEncodeStream ==
    \/ EncodeStreamRead
    \/ EncodeStreamReadEnd
    \/ EncodeStreamReadErr
    \/ EncodeStreamByte

SpecEncodeStream == InitEncodeStream /\ [][NextEncodeStream]_vars

\* longest sequence of symbols handed to the tokenizer
MaxTokSyms == 3

\* one table symbol of each shape: a modifier sequence, a tag sequence, a
\* flag, a keycap, one code point, a code point with U+FE0F, a tail symbol
TokenizerSymbols ==
    {EMOJI_MAP(0), EMOJI_MAP(640), EMOJI_MAP(643), EMOJI_MAP(901),
     EMOJI_MAP(913), EMOJI_MAP(914), TAIL_MAP(3)}

\* the bytes bs whole, without their last byte, or without their first byte
Damaged(bs) ==
    {bs, SubSeq(bs, 1, Len(bs) - 1), SubSeq(bs, 2, Len(bs))}

\* GraphemeReader::new(&mut cursor) over the UTF-8 bytes of up to MaxTokSyms
\* table symbols joined, whole or damaged
InitTokenizer ==
    /\ symbols \in BoundedSeq(TokenizerSymbols, MaxTokSyms)
    /\ string = concat(symbols)
    /\ reader \in Damaged(as_bytes(concat(symbols)))
    /\ pc = "gr_next"
    /\ bytes = <<>>
    /\ e_pos = 0
    /\ e_stage = 0
    /\ e_remaining = 0
    /\ output = <<>>
    /\ lookup = NoLookup
    /\ chars = <<>>
    /\ d_stage = 0
    /\ d_remaining = 0
    /\ residue = 0
    /\ ret = <<>>
    /\ result = "running"
    /\ r_pos = 0
    /\ writer = <<>>
    /\ io_error = {}
    /\ buffer = <<>>
    /\ pending = <<>>
    /\ read_sizes = {}
    /\ peeked = NotPeeked
    /\ cur = NoSymbol
    /\ handled = <<>>
    /\ yielded = <<>>

NextTokenizer ==
    \/ NextGraphemeYield
    \/ NextGraphemeRead
    \/ NextGraphemeReadEnd
    \/ NextGraphemeReadErr

SpecTokenizer == InitTokenizer /\ [][NextTokenizer]_vars

----------------------------------------------------------------------------
(* Properties of encode and decode *)

\* does the String s hold a cluster that is in neither table
HasForeign(s) ==
    \E i \in DOMAIN graphemes(s, FALSE) :
        /\ NUMBER_MAP(graphemes(s, FALSE)[i]) = None
        /\ TAIL_NUMBER_MAP(graphemes(s, FALSE)[i]) = None

\* C1: the round trip decode(encode(bytes)) ends with Some(bytes), for every
\* input up to MaxLen bytes (every value of 8 * len mod 11)
RoundTrip ==
    pc = "done" => (result = "Some" /\ ret = bytes)

\* a round trip of three bytes, whose encoding ends with a tail symbol
RoundTripWitness ==
    /\ pc = "done"
    /\ result = "Some"
    /\ Len(bytes) = 3
    /\ ret = bytes
    /\ TAIL_NUMBER_MAP(graphemes(string, FALSE)[3]) # None

\* C3: every index encode looks up is in its table (main 0..2047, tail 0..7
\* and only for 1..3 pending bits), and no lookup of encode panics
EncodeTotal ==
    /\ lookup.table = "main" => lookup.index \in 0..(MAIN_LEN - 1)
    /\ lookup.table = "tail" => (lookup.index \in 0..7 /\ e_remaining \in 1..3)
    /\ (lookup.table = "main" /\ e_pos = Len(bytes) /\ pc = "encoded")
           => (e_remaining \in 4..10 /\ lookup.index < Pow2(e_remaining))
    /\ result # "encode panic"

\* encode has returned after a final lookup in the tail table
EncodeTotalWitness ==
    /\ pc = "encoded"
    /\ lookup.table = "tail"
    /\ lookup.index = 6
    /\ e_remaining = 3

\* C4: decode ends with Some or None, its conversions to u8 never panic
DecodeNeverPanics ==
    result # "panic"

\* C5: whatever decode accepts is the encoding of the bytes it returns
DecodeOnlyEncoderOutput ==
    (pc = "done" /\ result = "Some") => encode(ret).output = string

\* C6: a String with a cluster of neither table is decoded to None
ForeignRejected ==
    (pc = "done" /\ HasForeign(string)) => result = "None"

\* decode has pushed bytes before it met the cluster of neither table
ForeignRejectedWitness ==
    /\ pc = "done"
    /\ HasForeign(string)
    /\ result = "None"
    /\ Len(ret) >= 2

\* C10: a tail symbol met with d_remaining pending bits is rejected when its
\* index is 2^need or more (need = 8 - d_remaining), and otherwise completes
\* exactly one byte, made of the pending bits and need bits of the index, and
\* leaves no pending bit
TailBoundary ==
    [][(pc = "decode" /\ chars # <<>> /\ TAIL_NUMBER_MAP(Head(chars)) # None)
         => LET need == 8 - d_remaining
                index == TAIL_NUMBER_MAP(Head(chars))
            IN  IF index >= Pow2(need)
                  THEN pc' = "done" /\ result' = "None"
                  ELSE /\ pc' = "decode"
                       /\ result' = "running"
                       /\ d_remaining' = 0
                       /\ d_stage' = 0
                       /\ ret' = Append(ret, d_stage * Pow2(need) + index)]_vars

\* the tail symbol of index 2^5 - 1 was accepted after one main symbol
TailBoundaryWitness ==
    /\ pc = "decode"
    /\ chars = <<>>
    /\ string = EMOJI_MAP(32) \o TAIL_MAP(31)
    /\ d_remaining = 0
    /\ Len(ret) = 2
    /\ ret[2] = 31

----------------------------------------------------------------------------
(* Properties of decode_stream *)

\* is the byte sequence a a prefix of the byte sequence b
IsPrefix(a, b) == Len(a) <= Len(b) /\ a = SubSeq(b, 1, Len(a))

\* C2: decode_stream over the UTF-8 bytes of encode(bytes), whatever the
\* sizes of the reads, returns Ok when neither the source nor the sink fails
\* and has written what decode(encode(bytes)) returns, that is bytes
StreamingEquivalence ==
    (pc = "done" /\ string = encode(bytes).output /\ reader = as_bytes(string)
        /\ io_error = {})
      => /\ result = "Ok"
         /\ decode(string).result = "Some"
         /\ writer = decode(string).ret
         /\ writer = bytes

\* a stream of three bytes' encoding, which ends with a tail symbol, decoded
StreamingEquivalenceWitness ==
    /\ pc = "done"
    /\ result = "Ok"
    /\ Len(bytes) = 3
    /\ string = encode(bytes).output
    /\ io_error = {}
    /\ writer = bytes
    /\ handled[3].is_last = FALSE
    /\ TAIL_NUMBER_MAP(handled[3].c) # None

RECURSIVE pushed(_, _, _, _, _)
\* the bytes the loop of decode pushes for the clusters hs, each taken with
\* its is_last, from the state (stage, remaining, res), after the bytes out
pushed(hs, stage, remaining, res, out) ==
    IF hs = <<>> THEN out
    ELSE LET r == decode_symbol(stage, remaining, res, Head(hs).c, Head(hs).is_last)
         IN  pushed(Tail(hs), r.stage, r.remaining, r.residue, out \o r.out)

\* C7 as claimed: a failure of decode_stream leaves the sink empty
StreamAllOrNothing ==
    (pc = "done" /\ result = "Err") => writer = <<>>

\* C7 as amended: when decode_stream returns a failure, the bytes of the
\* clusters handled before it are in the sink and stay there: exactly those
\* bytes, or a prefix of them when the failure is a failed write
StreamFailureKeepsDecoded ==
    (pc = "done" /\ result = "Err")
      => /\ IsPrefix(writer, pushed(handled, 0, 0, 0, <<>>))
         /\ "write" \notin io_error => writer = pushed(handled, 0, 0, 0, <<>>)

\* decode_stream has failed on a cluster of neither table after it wrote bytes
StreamFailureWitness ==
    /\ pc = "done"
    /\ result = "Err"
    /\ io_error = {}
    /\ Len(handled) = 2
    /\ Len(writer) = 2
    /\ writer = pushed(handled, 0, 0, 0, <<>>)

----------------------------------------------------------------------------
(* Properties of encode_stream *)

\* C8: when a read of the source or a write to the sink has failed,
\* encode_stream returns Err
EncodeStreamPropagates ==
    (pc = "done" /\ io_error # {}) => result = "Err"

\* C9: when no read and no write fails, encode_stream returns Ok and has
\* written the UTF-8 bytes of encode(input), however the reads split the input
EncodeStreamEquivalence ==
    (pc = "done" /\ io_error = {})
      => /\ result = "Ok"
         /\ ~encode(reader).panic
         /\ writer = as_bytes(encode(reader).output)

\* three bytes streamed in a read of one byte and a read of two
EncodeStreamWitness ==
    /\ pc = "done"
    /\ result = "Ok"
    /\ io_error = {}
    /\ Len(reader) = 3
    /\ read_sizes = {1, 2}
    /\ writer = as_bytes(encode(reader).output)
    /\ writer # <<>>

----------------------------------------------------------------------------
(* The shape of the encoder output *)

\* bit j (0 the first, most significant bits first) of the byte sequence bs
bit_at(bs, j) == (bs[(j \div 8) + 1] \div Pow2(7 - (j % 8))) % 2

RECURSIVE bits_value(_, _, _)
\* the number the width bits of bs from bit from on spell, MSB first
bits_value(bs, from, width) ==
    IF width = 0 THEN 0
    ELSE 2 * bits_value(bs, from, width - 1) + bit_at(bs, from + width - 1)

\* C11: encode of n bytes returns ceil(8n/11) symbols; the first floor(8n/11)
\* are the main-table symbols of the successive 11-bit groups of the input;
\* there is one more symbol iff r = 8n mod 11 is not 0, the symbol of the last
\* r bits, of the tail table iff r is 1..3 and of the main table iff r is 4..10
EncodeShape ==
    pc = "encoded"
      => LET n == Len(bytes)
             full == (8 * n) \div 11
             r == (8 * n) % 11
             syms == graphemes(output, FALSE)
         IN  /\ Len(syms) = full + (IF r = 0 THEN 0 ELSE 1)
             /\ \A i \in 1..full :
                   /\ i <= Len(syms)
                   /\ syms[i] = EMOJI_MAP(bits_value(bytes, 11 * (i - 1), 11))
             /\ r \in 1..3 =>
                   /\ syms[Len(syms)] = TAIL_MAP(bits_value(bytes, 11 * full, r))
                   /\ NUMBER_MAP(syms[Len(syms)]) = None
             /\ r \in 4..10 =>
                   /\ syms[Len(syms)] = EMOJI_MAP(bits_value(bytes, 11 * full, r))
                   /\ TAIL_NUMBER_MAP(syms[Len(syms)]) = None

\* encode has returned the five symbols of six bytes: four groups of 11 bits
\* and a main-table symbol of the last 4 bits
EncodeShapeWitness ==
    /\ pc = "encoded"
    /\ Len(bytes) = 6
    /\ Len(graphemes(output, FALSE)) = 5
    /\ NUMBER_MAP(graphemes(output, FALSE)[5]) = bits_value(bytes, 44, 4)

\* C14: encode of no bytes returns the empty String, and decode of the empty
\* String returns Some of no bytes
EmptyInput ==
    /\ (bytes = <<>> /\ pc # "encode") => (output = <<>> /\ result # "encode panic")
    /\ (pc = "done" /\ string = <<>>) => (result = "Some" /\ ret = <<>>)

\* the round trip of no bytes has ended
EmptyInputWitness ==
    /\ pc = "done"
    /\ bytes = <<>>
    /\ output = <<>>
    /\ string = <<>>
    /\ result = "Some"
    /\ ret = <<>>

\* C15: every byte encode processes arrives with 0..10 pending bits and
\* leaves 0..10 pending bits with e_stage < 2^e_remaining; with 3 or more
\* pending bits it appends one main-table symbol and leaves 3 pending bits
\* fewer, with fewer than 3 it appends nothing and leaves 8 more; no shift of
\* the 16-bit stage loses a bit
EncoderAccumulator ==
    [][(pc = "encode" /\ e_pos' = e_pos + 1)
         => /\ e_remaining \in 0..10
            /\ e_stage < Pow2(e_remaining)
            /\ e_remaining' \in 0..10
            /\ e_stage' < Pow2(e_remaining')
            /\ result' = "running"
            /\ IF e_remaining >= 3
                 THEN /\ e_remaining' = e_remaining - 3
                      /\ lookup'.table = "main"
                      /\ EMOJI_MAP(lookup'.index) # NoSymbol
                      /\ output' = output \o EMOJI_MAP(lookup'.index)
                      /\ e_stage * Pow2(11 - e_remaining) < Pow2(16)
                 ELSE /\ e_remaining' = e_remaining + 8
                      /\ output' = output
                      /\ e_stage' = e_stage * 256 + bytes[e_pos + 1]
                      /\ e_stage * Pow2(8) < Pow2(16)]_vars

\* the first byte was accumulated (0 pending bits), the second completed a
\* symbol (8 pending bits) and left 5 bits
EncoderAccumulatorWitness ==
    /\ pc = "encode"
    /\ e_pos = 2
    /\ e_remaining = 5
    /\ e_stage < 32
    /\ Len(graphemes(output, FALSE)) = 1

\* C16: while decode handles the k-th symbol residue is 11k mod 8, and once
\* the symbol is handled and its bytes pushed, 0..7 bits are pending and
\* d_stage < 2^d_remaining
DecoderAccumulator ==
    [][(pc = "decode" /\ chars # <<>>)
         => LET k == Len(graphemes(string, FALSE)) - Len(chars) + 1
            IN  /\ residue' = (11 * k) % 8
                /\ residue' \in 0..7
                /\ pc' = "decode"
                     => /\ d_remaining' \in 0..7
                        /\ d_stage' < Pow2(d_remaining')]_vars

\* C17: when decode handles a main-table symbol of encode(bytes), the number
\* of bits it takes from it is 11 when the symbol is not the last, and when it
\* is the last it is 11 - residue, the number of bits encode put in it: 8n mod
\* 11, which is then 4..10, or 11 when 8n mod 11 is 0
WidthRecovery ==
    [][(pc = "decode" /\ chars # <<>> /\ string = encode(bytes).output
          /\ NUMBER_MAP(Head(chars)) # None)
         => LET r == (8 * Len(bytes)) % 11
                taken_bits == d_remaining' - d_remaining + 8 * (Len(ret') - Len(ret))
            IN  /\ pc' = "decode"
                /\ IF Len(chars) = 1
                     THEN /\ taken_bits = 11 - residue'
                          /\ taken_bits = IF r = 0 THEN 11 ELSE r
                          /\ r \notin 1..3
                          /\ NUMBER_MAP(Head(chars)) < Pow2(taken_bits)
                     ELSE taken_bits = 11]_vars

\* the last of the five symbols of six bytes was taken as 4 bits wide
WidthRecoveryWitness ==
    /\ pc = "decode"
    /\ chars = <<>>
    /\ Len(bytes) = 6
    /\ Len(graphemes(string, FALSE)) = 5
    /\ residue = 7
    /\ d_remaining = 0
    /\ ret = bytes

\* does a tail-table symbol stand before the last cluster of the String s
TailBeforeLast(s) ==
    \E i \in 1..(Len(graphemes(s, FALSE)) - 1) :
        TAIL_NUMBER_MAP(graphemes(s, FALSE)[i]) # None

\* C18: decode fails on every String in which a tail-table symbol is followed
\* by another symbol
TailOnlyLast ==
    (pc = "done" /\ TailBeforeLast(string)) => result = "None"

\* C20: while encode_stream runs, having processed the first j bytes of the
\* source it has written exactly the first floor(8j/11) symbols of
\* encode(input); no step changes what was written (the sink before a step is
\* a prefix of the sink after it), and when nothing fails the sink is always
\* a prefix of the UTF-8 bytes of encode(input)
EncodeStreamOrdered ==
    [][/\ IsPrefix(writer, writer')
       /\ result' # "encode panic"
       /\ pc' \in {"es_read", "es_bytes"}
            => LET j == r_pos' - Len(pending')
                   syms == graphemes(encode(reader).output, FALSE)
               IN  /\ (8 * j) \div 11 <= Len(syms)
                   /\ writer' = as_bytes(concat(SubSeq(syms, 1, (8 * j) \div 11)))
       /\ io_error' = {} => IsPrefix(writer', as_bytes(encode(reader).output))]_vars

\* of four bytes read, three were processed and two symbols written, while
\* the last byte of the second read waits in the for loop
EncodeStreamOrderedWitness ==
    /\ pc = "es_bytes"
    /\ Len(reader) = 6
    /\ r_pos = 4
    /\ Len(pending) = 1
    /\ io_error = {}
    /\ Len(graphemes(from_utf8(writer).s, FALSE)) = 2
    /\ IsPrefix(writer, as_bytes(encode(reader).output))

----------------------------------------------------------------------------
(* Properties of GraphemeReader *)

\* the items of an iteration that returns the Strings ss and then ends
items_of(ss) == [i \in 1..(Len(ss) + 1) |-> IF i <= Len(ss) THEN ItemOk(ss[i]) ELSE ItemNone]

\* C12: over the UTF-8 bytes of table symbols joined, whatever the sizes of
\* the reads (1..4 bytes, ending anywhere), with no failing read, the
\* tokenizer returns exactly those symbols in order, each whole, and then
\* None: the clusters of the whole String
TokenizerExact ==
    (pc = "done" /\ reader = as_bytes(concat(symbols)) /\ io_error = {})
      => /\ yielded = items_of(symbols)
         /\ yielded = items_of(graphemes(string, TRUE))

\* a flag, a modifier sequence and a keycap, of 23 bytes together, tokenized
TokenizerExactWitness ==
    /\ pc = "done"
    /\ io_error = {}
    /\ symbols = <<EMOJI_MAP(643), EMOJI_MAP(0), EMOJI_MAP(901)>>
    /\ reader = as_bytes(concat(symbols))
    /\ r_pos = 23
    /\ yielded = items_of(symbols)

\* C13: when the read returns 0 (the source is exhausted and the buffer holds
\* no cluster followed by another), an empty buffer ends the sequence, a
\* buffer of valid UTF-8 is returned whole as one last symbol, a buffer that
\* is not valid UTF-8 is the error InvalidData; the buffer is empty afterwards
TokenizerEndOfInput ==
    [][(pc = "gr_next" /\ yielded' # yielded /\ io_error' = io_error
          /\ get_grapheme(buffer) = NoSymbol)
         => LET item == yielded'[Len(yielded')]
            IN  /\ r_pos = Len(reader)
                /\ yielded' = Append(yielded, item)
                /\ buffer' = <<>>
                /\ buffer = <<>> => (item = ItemNone /\ pc' = "done")
                /\ (buffer # <<>> /\ from_utf8(buffer).ok)
                     => /\ item.kind = "Ok"
                        /\ as_bytes(item.s) = buffer
                        /\ pc' = "gr_next"
                /\ (buffer # <<>> /\ ~from_utf8(buffer).ok)
                     => (item = ItemErr("InvalidData") /\ pc' = "gr_next")]_vars

\* two symbols were returned, then the rest of the input, which lacks its
\* last byte, was the error InvalidData, and the iteration has ended
TokenizerEndOfInputWitness ==
    /\ pc = "done"
    /\ Len(symbols) = 3
    /\ Len(reader) = Len(as_bytes(string)) - 1
    /\ io_error = {}
    /\ buffer = <<>>
    /\ Len(yielded) = 4
    /\ yielded[3] = ItemErr("InvalidData")
    /\ yielded[4] = ItemNone

\* is the buffer valid UTF-8 holding a cluster followed by another
HasLookahead(buf) ==
    from_utf8(buf).ok /\ Len(graphemes(from_utf8(buf).s, TRUE)) >= 2

\* C19: a step of the tokenizer on a buffer that is valid UTF-8 and holds a
\* cluster followed by another returns the first cluster and removes exactly
\* its bytes from the front of the buffer, without reading; on any other
\* buffer, while the source has bytes left, nothing is returned: the step
\* appends the next 1..4 bytes of the source to the buffer (or the read fails)
OneClusterLookahead ==
    [][pc = "gr_next"
         => IF HasLookahead(buffer)
              THEN LET g == graphemes(from_utf8(buffer).s, TRUE)[1]
                   IN  /\ yielded' = Append(yielded, ItemOk(g))
                       /\ buffer = as_bytes(g) \o buffer'
                       /\ buffer' # <<>>
                       /\ r_pos' = r_pos
              ELSE r_pos < Len(reader)
                     => \/ /\ yielded' = yielded
                           /\ \E n \in 1..CHUNK :
                                 /\ r_pos' = r_pos + n
                                 /\ buffer' = buffer \o SubSeq(reader, r_pos + 1, r_pos + n)
                        \/ /\ yielded' = Append(yielded, ItemErr("Io"))
                           /\ "read" \in io_error'
                           /\ buffer' = buffer
                           /\ r_pos' = r_pos]_vars

\* two symbols were returned while the source still had bytes to give, and
\* the bytes after them are still in the buffer
OneClusterLookaheadWitness ==
    /\ pc = "gr_next"
    /\ io_error = {}
    /\ Len(symbols) = 3
    /\ yielded = <<ItemOk(symbols[1]), ItemOk(symbols[2])>>
    /\ r_pos < Len(reader)
    /\ buffer # <<>>
    /\ as_bytes(symbols[1]) \o as_bytes(symbols[2]) \o buffer = SubSeq(reader, 1, r_pos)

\* the byte length of the longest table symbol: of the shapes of emoji_list
\* the tag sequence, three code points of four bytes each
longest_symbol == Len(as_bytes(EMOJI_MAP(N_MODIFIER)))

\* C21: at every point of decode_stream the buffer of the tokenizer holds at
\* most as many bytes as the longest table symbol has
TokenizerBufferBound ==
    Len(buffer) <= longest_symbol

\* C22: over a finite source every call of the tokenizer returns and
\* decode_stream eventually returns: with a failure, or after the tokenizer
\* has returned finitely many symbols and then None
StreamTerminates ==
    <>(pc = "done" /\ result \in {"Ok", "Err", "panic"})

\* decode_stream has returned the error of a read that failed after two
\* symbols were handled
StreamTerminatesWitness ==
    /\ pc = "done"
    /\ result = "Err"
    /\ io_error = {"read"}
    /\ Len(handled) = 2
    /\ r_pos < Len(reader)

\* C23: on the UTF-8 bytes of any String of symbols (main, tail or of
\* neither table, in any order), with no failing read or write, decode_stream
\* returns Ok exactly when decode returns Some, and has then written the
\* bytes decode returns; it panics exactly when decode panics
DecodersAgree ==
    (pc = "done" /\ reader = as_bytes(string) /\ io_error = {})
      => /\ result = "Ok" <=> decode(string).result = "Some"
         /\ result = "Err" <=> decode(string).result = "None"
         /\ result = "panic" <=> decode(string).result = "panic"
         /\ result = "Ok" => writer = decode(string).ret

\* both decoders accepted a String that no encoding is: two tail symbols
DecodersAgreeWitness ==
    /\ pc = "done"
    /\ result = "Ok"
    /\ io_error = {}
    /\ string = TAIL_MAP(3) \o TAIL_MAP(3)
    /\ reader = as_bytes(string)
    /\ writer = <<3, 3>>
    /\ decode(string).ret = <<3, 3>>

\* is every cluster of the String s a main-table symbol
OnlyMain(s) ==
    \A i \in DOMAIN graphemes(s, FALSE) : NUMBER_MAP(graphemes(s, FALSE)[i]) # None

\* C24: once decode has handled the last symbol of encode(bytes), or of a
\* String of main-table symbols only, no bit is pending, so the final
\* "if remaining > 0" pushes nothing; on encode(bytes) exactly the Len(bytes)
\* bytes are returned, on k main symbols the floor(11k / 8) bytes of the loop
FlushNeverTaken ==
    (string = encode(bytes).output \/ OnlyMain(string))
      => /\ (pc = "decode" /\ chars = <<>>)
              => /\ d_remaining = 0
                 /\ final_byte(d_stage, d_remaining).out = <<>>
         /\ (pc = "done" /\ result = "Some")
              => /\ d_remaining = 0
                 /\ string = encode(bytes).output => ret = bytes
                 /\ OnlyMain(string)
                      => Len(ret) = (11 * Len(graphemes(string, FALSE))) \div 8

\* the last of two main-table symbols that are no encoding was handled
\* (index 32 taken as 5 bits wide): two bytes were pushed, no bit is pending
FlushNeverTakenWitness ==
    /\ pc = "decode"
    /\ chars = <<>>
    /\ bytes = <<>>
    /\ string = EMOJI_MAP(0) \o EMOJI_MAP(32)
    /\ ret = <<0, 32>>
    /\ d_remaining = 0

====
